---- MODULE Spec2Model ----
(***************************************************************************)
(* ABI function / event resolution and transaction assembly of             *)
(* web3/_utils/contracts.py.                                               *)
(*                                                                         *)
(* Python values are modelled as follows:                                  *)
(*   None            the record NoneVal                                    *)
(*   dict            a function from its keys (strings) to its values, so  *)
(*                   "k in d" is  k \in DOMAIN d                           *)
(*   list / tuple    a sequence                                            *)
(*   ABI entry       a dict; keys "type", "name", "inputs", "payable" are  *)
(*                   present or absent as in the ABI document              *)
(*   argument value  a record [t, v]: t is the runtime type ("int" or      *)
(*                   "str"), v the integer value (a text index for "str")  *)
(*   fn_identifier   [kind |-> "text", text |-> name], the marker classes  *)
(*                   FallbackFn / ReceiveFn, or None (not a text)          *)
(*   exceptions      a result record with outcome = "raise"                *)
(*   args, kwargs    None and the empty tuple / dict are the same          *)
(*                   invocation ("args or tuple()", "kwargs or dict()");   *)
(*                   the calls pass the tuple / dict                       *)
(***************************************************************************)
EXTENDS Integers, Sequences, FiniteSets, TLC

VARIABLES abi, pc, call, result, transaction

vars == <<abi, pc, call, result, transaction>>

(***************************************************************************)
(* Bounds of the model.                                                    *)
(***************************************************************************)
MaxAbi == 2
MaxArgs == 2
MaxTxArgs == 1

(***************************************************************************)
(* Python values.                                                          *)
(***************************************************************************)
NoneVal == [isNone |-> TRUE]
EmptyDict == [k \in {} |-> 0]
IntVal(n) == [t |-> "int", v |-> n]
TextVal(n) == [t |-> "str", v |-> n]
Text(s) == [kind |-> "text", text |-> s]
FallbackFn == [kind |-> "FallbackFn"]
ReceiveFn == [kind |-> "ReceiveFn"]

Return(x) == [outcome |-> "return", value |-> x]
Raise(err, msg) == [outcome |-> "raise", error |-> err, diagnosis |-> msg]

is_text(x) == "kind" \in DOMAIN x /\ x.kind = "text"

(***************************************************************************)
(* Error texts.                                                            *)
(***************************************************************************)
ImproperNumber == "Function invocation failed due to improper number of arguments."
NoMatchingTypes == "Function invocation failed due to no matching argument types."
AmbiguousEncoding == "Ambiguous argument encoding."
UnsupportedIdentifier == "Unsupported function identifier"
NoFallback == "No fallback function was found in the contract ABI."
NoReceive == "No receive function was found in the contract ABI."
NoEvents == "No matching events found"
MultipleEvents == "Multiple events found"
NotEncodable == "One or more arguments could not be encoded to the necessary ABI type."
DataConflict == "Transaction parameter may not contain a 'data' key"
PayableViolation == "Sending non-zero ether to a contract function with payable=False."
NoneNotIterable == "argument of type 'NoneType' is not iterable"
DiagnosisUnbound == "local variable 'diagnosis' referenced before assignment"

(***************************************************************************)
(* Helpers imported from web3._utils.abi and the ABI codec.                *)
(***************************************************************************)
Inputs(e) == IF "inputs" \in DOMAIN e THEN e.inputs ELSE <<>>

get_abi_input_names(e) == {Inputs(e)[i].name : i \in 1..Len(Inputs(e))}

get_abi_input_types(e) == [i \in 1..Len(Inputs(e)) |-> Inputs(e)[i].type]

is_encodable(type, arg) ==
    CASE type = "uint256" -> arg.t = "int" /\ arg.v >= 0
      [] type = "int256" -> arg.t = "int"
      [] type = "string" -> arg.t = "str"
      [] OTHER -> FALSE

filter_by_type(type, contract_abi) ==
    SelectSeq(contract_abi, LAMBDA e : e.type = type)

filter_by_name(name, contract_abi) ==
    SelectSeq(contract_abi, LAMBDA e : "name" \in DOMAIN e /\ e.name = name)

filter_by_argument_count(num_arguments, contract_abi) ==
    SelectSeq(contract_abi, LAMBDA e : Len(Inputs(e)) = num_arguments)

filter_by_argument_name(argument_names, contract_abi) ==
    SelectSeq(contract_abi, LAMBDA e : argument_names \subseteq get_abi_input_names(e))

\* The positional and named arguments merged into declared order, or a
\* TypeError: wrong total count, a named argument that repeats a positional
\* one, or a named argument the entry does not declare.
merge_args_and_kwargs(function_abi, args, kwargs) ==
    LET inputs == Inputs(function_abi)
        positional == {inputs[i].name : i \in 1..Len(args)}
    IN  IF Len(args) + Cardinality(DOMAIN kwargs) # Len(inputs)
        THEN Raise("TypeError", "Incorrect argument count")
        ELSE IF DOMAIN kwargs = {}
        THEN Return(args)
        ELSE IF DOMAIN kwargs \cap positional # {}
        THEN Raise("TypeError", "Duplicate arguments")
        ELSE IF ~(DOMAIN kwargs \subseteq get_abi_input_names(function_abi))
        THEN Raise("TypeError", "Unknown arguments")
        ELSE Return([i \in 1..Len(inputs) |->
                        IF i <= Len(args) THEN args[i] ELSE kwargs[inputs[i].name]])

check_if_arguments_can_be_encoded(function_abi, args, kwargs) ==
    LET encodable(arguments) ==
            /\ arguments.outcome = "return"
            /\ Len(Inputs(function_abi)) = Len(arguments.value)
            /\ \A i \in 1..Len(arguments.value) :
                  is_encodable(Inputs(function_abi)[i].type, arguments.value[i])
    IN  encodable(merge_args_and_kwargs(function_abi, args, kwargs))

filter_by_encodability(args, kwargs, contract_abi) ==
    SelectSeq(contract_abi, LAMBDA e : check_if_arguments_can_be_encoded(e, args, kwargs))

get_fallback_func_abi(contract_abi) ==
    LET fallback_abis == filter_by_type("fallback", contract_abi)
    IN  IF fallback_abis # <<>> THEN Return(fallback_abis[1])
        ELSE Raise("FallbackNotFound", NoFallback)

get_receive_func_abi(contract_abi) ==
    LET receive_abis == filter_by_type("receive", contract_abi)
    IN  IF receive_abis # <<>> THEN Return(receive_abis[1])
        ELSE Raise("FallbackNotFound", NoReceive)

abi_to_signature(e) == <<e.name>> \o get_abi_input_types(e)

(***************************************************************************)
(* find_matching_fn_abi                                                    *)
(***************************************************************************)
function_candidates_no_encoding(contract_abi, name, args, kwargs) ==
    filter_by_argument_count(Len(args) + Cardinality(DOMAIN kwargs),
        filter_by_name(name, contract_abi))

\* pipe(abi, name_filter, arg_count_filter, encoding_filter)
function_candidates(contract_abi, name, args, kwargs) ==
    filter_by_encodability(args, kwargs,
        filter_by_argument_count(Len(args) + Cardinality(DOMAIN kwargs),
            filter_by_name(name, contract_abi)))

diagnosis_types_first(arg_count_matches, encoding_matches) ==
    IF encoding_matches = 0 THEN NoMatchingTypes
    ELSE IF arg_count_matches = 0 THEN ImproperNumber
    ELSE IF encoding_matches > 1 THEN AmbiguousEncoding
    ELSE DiagnosisUnbound

\* The if / elif / elif chain that binds diagnosis; no branch binds it when
\* arg_count_matches > 0 and encoding_matches = 1.
diagnosis(arg_count_matches, encoding_matches) ==
    IF arg_count_matches = 0 THEN ImproperNumber
    ELSE IF encoding_matches = 0 THEN NoMatchingTypes
    ELSE IF encoding_matches > 1 THEN AmbiguousEncoding
    ELSE DiagnosisUnbound

\* The else branch: re-run the stages on the name matches and raise.
fn_resolution_error(contract_abi, name, args, kwargs) ==
    LET raise(matching_identifiers, d) ==
            [outcome |-> "raise",
             error |-> IF d = DiagnosisUnbound THEN "UnboundLocalError"
                       ELSE "ValidationError",
             diagnosis |-> d,
             found |-> Len(matching_identifiers)]
        diagnose(matching_identifiers) ==
            raise(matching_identifiers,
                  diagnosis(
                      Len(filter_by_argument_count(
                              Len(args) + Cardinality(DOMAIN kwargs), matching_identifiers)),
                      Len(filter_by_encodability(args, kwargs, matching_identifiers))))
    IN  diagnose(filter_by_name(name, contract_abi))

find_matching_fn_abi_first_wins(contract_abi, fn_identifier, args, kwargs) ==
    LET pick(c) == IF Len(c) >= 1 THEN Return(c[1])
                   ELSE fn_resolution_error(contract_abi, fn_identifier.text, args, kwargs)
    IN  IF fn_identifier = FallbackFn THEN get_fallback_func_abi(contract_abi)
        ELSE IF fn_identifier = ReceiveFn THEN get_receive_func_abi(contract_abi)
        ELSE IF ~is_text(fn_identifier) THEN Raise("TypeError", UnsupportedIdentifier)
        ELSE pick(function_candidates(contract_abi, fn_identifier.text, args, kwargs))

find_matching_fn_abi_text_first(contract_abi, fn_identifier, args, kwargs) ==
    LET pick(c) == IF Len(c) = 1 THEN Return(c[1])
                   ELSE fn_resolution_error(contract_abi, fn_identifier.text, args, kwargs)
    IN  IF ~is_text(fn_identifier) THEN Raise("TypeError", UnsupportedIdentifier)
        ELSE pick(function_candidates(contract_abi, fn_identifier.text, args, kwargs))

find_matching_fn_abi(contract_abi, fn_identifier, args, kwargs) ==
    LET pick(c) == IF Len(c) = 1 THEN Return(c[1])
                   ELSE fn_resolution_error(contract_abi, fn_identifier.text, args, kwargs)
    IN  IF fn_identifier = FallbackFn THEN get_fallback_func_abi(contract_abi)
        ELSE IF fn_identifier = ReceiveFn THEN get_receive_func_abi(contract_abi)
        ELSE IF ~is_text(fn_identifier) THEN Raise("TypeError", UnsupportedIdentifier)
        ELSE pick(function_candidates(contract_abi, fn_identifier.text, args, kwargs))

(***************************************************************************)
(* find_matching_event_abi                                                 *)
(* event_name and argument_names are None or [some |-> x].                 *)
(***************************************************************************)
Some(x) == [some |-> x]

event_abi_candidates_any_type(contract_abi, event_name, argument_names) ==
    LET by_argument_name(f2) ==
            IF argument_names # NoneVal
            THEN filter_by_argument_name(argument_names.some, f2) ELSE f2
    IN  by_argument_name(IF event_name # NoneVal
                         THEN filter_by_name(event_name.some, contract_abi)
                         ELSE contract_abi)

\* pipe(abi, *filters)
event_abi_candidates(contract_abi, event_name, argument_names) ==
    LET by_argument_name(f2) ==
            IF argument_names # NoneVal
            THEN filter_by_argument_name(argument_names.some, f2) ELSE f2
        by_name(f1) ==
            by_argument_name(IF event_name # NoneVal
                             THEN filter_by_name(event_name.some, f1) ELSE f1)
    IN  by_name(filter_by_type("event", contract_abi))

find_matching_event_abi(contract_abi, event_name, argument_names) ==
    LET pick(c) == IF Len(c) = 1 THEN Return(c[1])
                   ELSE IF c = <<>> THEN Raise("ValueError", NoEvents)
                   ELSE Raise("ValueError", MultipleEvents)
    IN  pick(event_abi_candidates(contract_abi, event_name, argument_names))

(***************************************************************************)
(* encode_abi, encode_transaction_data and the *_function_info helpers.    *)
(* The 4-byte selector is represented by the signature it hashes, the      *)
(* codec's byte string by the pair of types and values it encodes; the     *)
(* argument values of the model are already canonical, so the normalizers  *)
(* leave them as they are.                                                 *)
(***************************************************************************)
EmptySelector == <<>>

encode_abi(fn_abi, arguments, data) ==
    IF ~check_if_arguments_can_be_encoded(fn_abi, arguments, EmptyDict)
    THEN Raise("TypeError", NotEncodable)
    ELSE Return([prefix |-> data,
                 encoded |-> <<get_abi_input_types(fn_abi), arguments>>])

get_fallback_function_info(contract_abi, fn_abi) ==
    LET info(r) ==
            IF r.outcome = "raise" THEN r
            ELSE Return([fn_abi |-> r.value, fn_selector |-> EmptySelector,
                         fn_arguments |-> <<>>])
    IN  info(IF fn_abi = NoneVal THEN get_fallback_func_abi(contract_abi)
             ELSE Return(fn_abi))

get_receive_function_info(contract_abi, fn_abi) ==
    LET info(r) ==
            IF r.outcome = "raise" THEN r
            ELSE Return([fn_abi |-> r.value, fn_selector |-> EmptySelector,
                         fn_arguments |-> <<>>])
    IN  info(IF fn_abi = NoneVal THEN get_receive_func_abi(contract_abi)
             ELSE Return(fn_abi))

get_function_info(fn_name, contract_abi, fn_abi, args, kwargs) ==
    LET aligned(e, fn_arguments) ==
            IF fn_arguments.outcome = "raise" THEN fn_arguments
            ELSE Return([fn_abi |-> e, fn_selector |-> abi_to_signature(e),
                         fn_arguments |-> fn_arguments.value])
        info(r) ==
            IF r.outcome = "raise" THEN r
            ELSE IF "name" \notin DOMAIN r.value THEN Raise("KeyError", "name")
            ELSE aligned(r.value, merge_args_and_kwargs(r.value, args, kwargs))
    IN  info(IF fn_abi = NoneVal
             THEN find_matching_fn_abi(contract_abi, fn_name, args, kwargs)
             ELSE Return(fn_abi))

encode_transaction_data(fn_identifier, contract_abi, fn_abi, args, kwargs) ==
    LET encode(info) ==
            IF info.outcome = "raise" THEN info
            ELSE encode_abi(info.value.fn_abi, info.value.fn_arguments,
                            info.value.fn_selector)
    IN  encode(IF fn_identifier = FallbackFn
               THEN get_fallback_function_info(contract_abi, fn_abi)
               ELSE IF fn_identifier = ReceiveFn
               THEN get_receive_function_info(contract_abi, fn_abi)
               ELSE IF is_text(fn_identifier)
               THEN get_function_info(fn_identifier, contract_abi, fn_abi, args, kwargs)
               ELSE Raise("TypeError", UnsupportedIdentifier))

(***************************************************************************)
(* validate_payable                                                        *)
(***************************************************************************)
validate_payable_default_false(tx, fn_abi) ==
    IF tx = NoneVal THEN Raise("TypeError", NoneNotIterable)
    ELSE IF /\ "value" \in DOMAIN tx
            /\ tx["value"] # 0
            /\ ~("payable" \in DOMAIN fn_abi /\ fn_abi["payable"])
    THEN Raise("ValidationError", PayableViolation)
    ELSE Return(NoneVal)

validate_payable(tx, fn_abi) ==
    IF tx = NoneVal THEN Raise("TypeError", NoneNotIterable)
    ELSE IF /\ "value" \in DOMAIN tx
            /\ tx["value"] # 0
            /\ "payable" \in DOMAIN fn_abi /\ ~fn_abi["payable"]
    THEN Raise("ValidationError", PayableViolation)
    ELSE Return(NoneVal)

(***************************************************************************)
(* prepare_transaction                                                     *)
(* Dict objects live in a two-cell heap: "caller" is the object the caller *)
(* passed as transaction, "new" the dict built here; prepared_transaction  *)
(* is a reference (ref) into it.                                           *)
(***************************************************************************)
set_item(d, k, v) == (k :> v) @@ d
setdefault(d, k, v) == d @@ (k :> v)

copy_transaction_alias(tx) ==
    [ref |-> IF tx = NoneVal THEN "new" ELSE "caller",
     heap |-> [caller |-> tx, new |-> EmptyDict]]

\* prepared_transaction = {} or dict(**transaction)
copy_transaction(tx) ==
    [ref |-> "new",
     heap |-> [caller |-> tx, new |-> IF tx = NoneVal THEN EmptyDict ELSE tx]]

\* if address: prepared_transaction.setdefault('to', address)
set_to(st, address) ==
    IF address # ""
    THEN [st EXCEPT !.heap[st.ref] = setdefault(st.heap[st.ref], "to", address)]
    ELSE st

\* prepared_transaction['data'] = encode_transaction_data(...); return
set_data(st, d) ==
    IF d.outcome = "raise"
    THEN [result |-> d, caller |-> st.heap.caller]
    ELSE [result |-> [outcome |-> "return",
                      value |-> set_item(st.heap[st.ref], "data", d.value),
                      ref |-> st.ref],
          caller |-> [st.heap EXCEPT ![st.ref] =
                          set_item(st.heap[st.ref], "data", d.value)].caller]

prepare_transaction_no_data_check(address, fn_identifier, contract_abi, fn_abi, tx, fn_args, fn_kwargs) ==
    LET assemble(e) ==
            set_data(set_to(copy_transaction(tx), address),
                     encode_transaction_data(fn_identifier, contract_abi, e,
                                             fn_args, fn_kwargs))
        payable(e, vp) ==
            IF vp.outcome = "raise" THEN [result |-> vp, caller |-> tx]
            ELSE assemble(e)
        resolved(r) ==
            IF r.outcome = "raise" THEN [result |-> r, caller |-> tx]
            ELSE payable(r.value, validate_payable(tx, r.value))
    IN  resolved(IF fn_abi = NoneVal
                 THEN find_matching_fn_abi(contract_abi, fn_identifier, fn_args, fn_kwargs)
                 ELSE Return(fn_abi))

prepare_transaction(address, fn_identifier, contract_abi, fn_abi, tx, fn_args, fn_kwargs) ==
    LET assemble(e, st0) ==
            IF "data" \in DOMAIN st0.heap[st0.ref]
            THEN [result |-> Raise("ValueError", DataConflict),
                  caller |-> st0.heap.caller]
            ELSE set_data(set_to(st0, address),
                          encode_transaction_data(fn_identifier, contract_abi, e,
                                                  fn_args, fn_kwargs))
        payable(e, vp) ==
            IF vp.outcome = "raise" THEN [result |-> vp, caller |-> tx]
            ELSE assemble(e, copy_transaction(tx))
        resolved(r) ==
            IF r.outcome = "raise" THEN [result |-> r, caller |-> tx]
            ELSE payable(r.value, validate_payable(tx, r.value))
    IN  resolved(IF fn_abi = NoneVal
                 THEN find_matching_fn_abi(contract_abi, fn_identifier, fn_args, fn_kwargs)
                 ELSE Return(fn_abi))

(***************************************************************************)
(* The inputs the calls are drawn from.                                    *)
(***************************************************************************)
F_UINT == [type |-> "function", name |-> "f", payable |-> FALSE,
           inputs |-> <<[name |-> "a", type |-> "uint256"]>>]
F_INT == [type |-> "function", name |-> "f",
          inputs |-> <<[name |-> "a", type |-> "int256"]>>]
F_PAIR == [type |-> "function", name |-> "f", payable |-> TRUE,
           inputs |-> <<[name |-> "a", type |-> "uint256"],
                        [name |-> "b", type |-> "uint256"]>>]
EV_F == [type |-> "event", name |-> "f",
         inputs |-> <<[name |-> "a", type |-> "uint256"]>>]
EV_PAIR == [type |-> "event", name |-> "f",
            inputs |-> <<[name |-> "a", type |-> "uint256"],
                         [name |-> "b", type |-> "uint256"]>>]
FALLBACK == [type |-> "fallback", payable |-> TRUE]
RECEIVE == [type |-> "receive"]

AbiPool == {F_UINT, F_INT, F_PAIR, EV_F, EV_PAIR, FALLBACK, RECEIVE}

SeqsUpTo(S, n) == UNION {[1..k -> S] : k \in 0..n}

AbiSet == SeqsUpTo(AbiPool, MaxAbi)

Values == {IntVal(1), IntVal(-1), TextVal(0)}
Names == {"a", "b"}
Identifiers == {Text("f"), Text("g"), FallbackFn, ReceiveFn, NoneVal}

ArgsSet(n) == SeqsUpTo(Values, n)
KwargsSet(n) == UNION {[D -> {IntVal(1)}] : D \in {X \in SUBSET Names : Cardinality(X) <= n}}

EventNames == {NoneVal, Some("f"), Some("g")}
ArgumentNames == {NoneVal} \cup {Some(X) : X \in SUBSET Names}

Addresses == {"", "0xA"}
ToFields == {EmptyDict, [to |-> "0xB"]}
ValueFields == {EmptyDict, [value |-> 0], [value |-> 1]}
DataFields == {EmptyDict, [data |-> "0xdead"]}
Transactions ==
    {NoneVal} \cup {a @@ b @@ c : a \in ToFields, b \in ValueFields, c \in DataFields}

Elements(s) == {s[i] : i \in 1..Len(s)}

NoCall == [op |-> "none"]
NoResult == [outcome |-> "none"]

(***************************************************************************)
(* The state machine: a caller holding an ABI makes one call at a time.    *)
(***************************************************************************)
Init ==
    /\ abi \in AbiSet
    /\ pc = "idle"
    /\ call = NoCall
    /\ result = NoResult
    /\ transaction = NoneVal

CallFindMatchingFnAbi ==
    /\ pc = "idle"
    /\ \E fn_identifier \in Identifiers, args \in ArgsSet(MaxArgs),
          kwargs \in KwargsSet(MaxArgs) :
          /\ call' = [op |-> "find_matching_fn_abi", fn_identifier |-> fn_identifier,
                      args |-> args, kwargs |-> kwargs]
          /\ result' = find_matching_fn_abi(abi, fn_identifier, args, kwargs)
    /\ pc' = "fn"
    /\ UNCHANGED <<abi, transaction>>

CallFindMatchingEventAbi ==
    /\ pc = "idle"
    /\ \E event_name \in EventNames, argument_names \in ArgumentNames :
          /\ call' = [op |-> "find_matching_event_abi", event_name |-> event_name,
                      argument_names |-> argument_names]
          /\ result' = find_matching_event_abi(abi, event_name, argument_names)
    /\ pc' = "event"
    /\ UNCHANGED <<abi, transaction>>

CallValidatePayable ==
    /\ pc = "idle"
    /\ \E tx \in Transactions, fn_abi \in Elements(abi) :
          /\ call' = [op |-> "validate_payable", transaction |-> tx, fn_abi |-> fn_abi]
          /\ result' = validate_payable(tx, fn_abi)
          /\ transaction' = tx
    /\ pc' = "payable"
    /\ UNCHANGED abi

CallPrepareTransaction ==
    /\ pc = "idle"
    /\ \E address \in Addresses, fn_identifier \in Identifiers,
          fn_abi \in {NoneVal} \cup Elements(abi), tx \in Transactions,
          fn_args \in ArgsSet(MaxTxArgs), fn_kwargs \in KwargsSet(MaxTxArgs) :
          \E r \in {prepare_transaction(address, fn_identifier, abi, fn_abi, tx,
                                       fn_args, fn_kwargs)} :
              /\ call' = [op |-> "prepare_transaction", address |-> address,
                          fn_identifier |-> fn_identifier, fn_abi |-> fn_abi,
                          transaction |-> tx, fn_args |-> fn_args,
                          fn_kwargs |-> fn_kwargs]
              /\ result' = r.result
              /\ transaction' = r.caller
    /\ pc' = "prepare"
    /\ UNCHANGED abi

Done ==
    /\ pc # "idle"
    /\ pc' = "idle"
    /\ call' = NoCall
    /\ result' = NoResult
    /\ transaction' = NoneVal
    /\ UNCHANGED abi

Next ==
    \/ CallFindMatchingFnAbi
    \/ CallFindMatchingEventAbi
    \/ CallValidatePayable
    \/ CallPrepareTransaction
    \/ Done

Spec == Init /\ [][Next]_vars

TypeOK ==
    /\ abi \in AbiSet
    /\ pc \in {"idle", "fn", "event", "payable", "prepare"}
    /\ result.outcome \in {"none", "return", "raise"}

(***************************************************************************)
(* Properties of the function path.                                        *)
(***************************************************************************)
FnCall == pc = "fn" /\ is_text(call.fn_identifier)

NumArguments == Len(call.args) + Cardinality(DOMAIN call.kwargs)

NameMatches ==
    {i \in 1..Len(abi) : "name" \in DOMAIN abi[i] /\ abi[i].name = call.fn_identifier.text}

ArityMatches == {i \in NameMatches : Len(Inputs(abi[i])) = NumArguments}

Survivors ==
    {i \in ArityMatches : check_if_arguments_can_be_encoded(abi[i], call.args, call.kwargs)}

TheOne(S) == CHOOSE i \in S : TRUE

\* C1: for a name identifier, find_matching_fn_abi returns an entry exactly
\* when one ABI entry survives name, argument-count and encodability
\* filtering, and then returns that entry; with zero or several survivors it
\* raises ValidationError.
C1_SoleSurvivor ==
    FnCall =>
        IF Cardinality(Survivors) = 1
        THEN result = Return(abi[TheOne(Survivors)])
        ELSE result.outcome = "raise" /\ result.error = "ValidationError"

\* Two overloads of the same name and arity, told apart by encodability.
C1_Witness ==
    /\ FnCall
    /\ Cardinality(ArityMatches) = 2
    /\ Cardinality(Survivors) = 1
    /\ result.outcome = "return"
    /\ result.value = F_INT

\* C2: a failing name resolution raises ValidationError with exactly one
\* diagnosis: improper number of arguments when no name match has the
\* arity, else no matching argument types when none is encodable, else
\* ambiguous (more than one encodable); the diagnosis is always bound.
C2_Diagnosis ==
    (FnCall /\ result.outcome = "raise") =>
        /\ result.error = "ValidationError"
        /\ result.diagnosis =
              (IF ArityMatches = {} THEN ImproperNumber
               ELSE IF Survivors = {} THEN NoMatchingTypes
               ELSE AmbiguousEncoding)
        /\ result.diagnosis = AmbiguousEncoding => Cardinality(Survivors) > 1

\* f(uint256) and f(int256) called with a value both can encode.
C2_Witness ==
    /\ FnCall
    /\ F_UINT \in Elements(abi) /\ F_INT \in Elements(abi)
    /\ call.args = <<IntVal(1)>> /\ call.kwargs = EmptyDict
    /\ result.outcome = "raise"
    /\ result.diagnosis = AmbiguousEncoding

\* C6: when no ABI entry has the requested name, the failure is reported as
\* not found and not with the wrong-argument-count diagnosis.
C6_NotFoundDistinct ==
    (FnCall /\ NameMatches = {}) =>
        /\ result.outcome = "raise"
        /\ result.diagnosis # ImproperNumber

\* C7 as stated: a unique name match whose arity equals the number of
\* arguments is returned whether or not the arguments are encodable.
C7_UniqueMatchReturned ==
    (FnCall /\ Cardinality(NameMatches) = 1 /\ ArityMatches = NameMatches) =>
        result = Return(abi[TheOne(NameMatches)])

\* C7 amended: a unique name match whose arity equals the number of
\* arguments is returned exactly when the arguments are encodable against
\* it; otherwise ValidationError with the no-matching-argument-types
\* diagnosis is raised, never the ambiguous one.
C7_UniqueMatchNeedsEncodability ==
    (FnCall /\ Cardinality(NameMatches) = 1 /\ ArityMatches = NameMatches) =>
        IF check_if_arguments_can_be_encoded(abi[TheOne(NameMatches)],
                                             call.args, call.kwargs)
        THEN result = Return(abi[TheOne(NameMatches)])
        ELSE /\ result.outcome = "raise"
             /\ result.error = "ValidationError"
             /\ result.diagnosis = NoMatchingTypes

\* f(uint256) alone, called with one text argument.
C7_Witness ==
    /\ FnCall
    /\ Cardinality(NameMatches) = 1 /\ ArityMatches = NameMatches
    /\ abi[TheOne(NameMatches)] = F_UINT
    /\ call.args = <<TextVal(0)>>
    /\ result.outcome = "raise"
    /\ result.diagnosis = NoMatchingTypes

MarkerCall == pc = "fn" /\ call.fn_identifier \in {FallbackFn, ReceiveFn}

MarkerType == IF call.fn_identifier = FallbackFn THEN "fallback" ELSE "receive"

MarkerEntries == {i \in 1..Len(abi) : abi[i].type = MarkerType}

Min(S) == CHOOSE i \in S : \A j \in S : i <= j

\* C8: for the Fallback / Receive marker the ABI's fallback / receive entry
\* is returned whatever args and kwargs are, NotFound is raised when the ABI
\* declares none, and the marker never yields the unsupported-identifier
\* TypeError.
C8_MarkerDirect ==
    MarkerCall =>
        IF MarkerEntries = {}
        THEN result.outcome = "raise" /\ result.error = "FallbackNotFound"
        ELSE result = Return(abi[Min(MarkerEntries)])

\* A marker call with arguments that no sentinel entry could take.
C8_Witness ==
    /\ MarkerCall
    /\ call.fn_identifier = ReceiveFn
    /\ Len(call.args) = 2 /\ call.kwargs # EmptyDict
    /\ result = Return(RECEIVE)

(***************************************************************************)
(* Properties of the event path.                                           *)
(***************************************************************************)
EventSurvivors ==
    {i \in 1..Len(abi) :
        /\ abi[i].type = "event"
        /\ call.event_name # NoneVal => abi[i].name = call.event_name.some
        /\ call.argument_names # NoneVal =>
              call.argument_names.some \subseteq get_abi_input_names(abi[i])}

\* C9: find_matching_event_abi keeps the entries of type event, of the given
\* name if one is given, declaring every given argument name if any are
\* given; it returns the sole survivor, raises "No matching events found"
\* for none and "Multiple events found" for several, so an entry that is not
\* an event is never returned and never counted.
C9_EventResolution ==
    pc = "event" =>
        IF Cardinality(EventSurvivors) = 1
        THEN result = Return(abi[TheOne(EventSurvivors)])
        ELSE IF EventSurvivors = {}
        THEN result = Raise("ValueError", NoEvents)
        ELSE result = Raise("ValueError", MultipleEvents)

\* An event found by name next to a function of the same name.
C9_Witness ==
    /\ pc = "event"
    /\ \E i \in 1..Len(abi) : abi[i].type = "function" /\ abi[i].name = "f"
    /\ call.event_name = Some("f")
    /\ result = Return(EV_F)

(***************************************************************************)
(* Properties of validate_payable and prepare_transaction.                 *)
(***************************************************************************)
PrepareCall == pc = "prepare"

\* The entry prepare_transaction works with: fn_abi when given, else the
\* result of find_matching_fn_abi.
Resolution ==
    IF call.fn_abi # NoneVal THEN Return(call.fn_abi)
    ELSE find_matching_fn_abi(abi, call.fn_identifier, call.fn_args, call.fn_kwargs)

\* A call that reaches the payable check with entry e.
PayableChecked(e) ==
    \/ pc = "payable" /\ e = call.fn_abi
    \/ PrepareCall /\ Resolution = Return(e)

HasValue == call.transaction # NoneVal /\ "value" \in DOMAIN call.transaction

NonZeroValue == HasValue /\ call.transaction["value"] # 0

PayableError == result = Raise("ValidationError", PayableViolation)

\* C3 as stated: a zero or missing value never fails the payable check, and
\* a non-zero value sent to an entry that is not explicitly payable
\* (payable false or no payable flag) always fails it.
C3_NotExplicitlyPayableRejected ==
    \A e \in Elements(abi) :
        PayableChecked(e) =>
            /\ ~NonZeroValue => ~PayableError
            /\ (NonZeroValue /\ ~("payable" \in DOMAIN e /\ e["payable"])) => PayableError

\* C3 amended: a zero or missing value never fails the payable check; a
\* non-zero value fails it exactly when the entry carries a payable flag
\* that is false, so an entry without a payable flag is not rejected.
C3_PayableFalseRejected ==
    \A e \in Elements(abi) :
        PayableChecked(e) =>
            /\ ~NonZeroValue => ~PayableError
            /\ (NonZeroValue /\ "payable" \in DOMAIN e /\ ~e["payable"]) => PayableError
            /\ (NonZeroValue /\ "payable" \notin DOMAIN e) => ~PayableError

\* Non-zero value accepted for an entry without a payable flag.
C3_Witness ==
    /\ PrepareCall
    /\ Resolution = Return(F_INT)
    /\ NonZeroValue
    /\ result.outcome = "return"

HasData == call.transaction # NoneVal /\ "data" \in DOMAIN call.transaction

DataConflictError == result = Raise("ValueError", DataConflict)

\* C4 as stated: a base transaction with a 'data' field always fails with
\* the data-conflict ValueError, whatever the other inputs are.
C4_DataAlwaysConflict ==
    (PrepareCall /\ HasData) => DataConflictError

\* C4 amended: a base transaction with a 'data' field always makes
\* prepare_transaction fail; the failure is the data-conflict ValueError
\* exactly when resolution succeeds and the payable check passes, and the
\* earlier resolution or payable error otherwise.
C4_DataNeverAccepted ==
    (PrepareCall /\ HasData) =>
        /\ result.outcome = "raise"
        /\ DataConflictError <=>
              /\ Resolution.outcome = "return"
              /\ ~(/\ NonZeroValue
                   /\ "payable" \in DOMAIN Resolution.value
                   /\ ~Resolution.value["payable"])
        /\ Resolution.outcome = "raise" => result = Resolution

\* The conflict reported for a payable entry and a non-zero value.
C4_Witness ==
    /\ PrepareCall
    /\ HasData
    /\ NonZeroValue
    /\ Resolution = Return(F_PAIR)
    /\ DataConflictError

\* C5: the caller's base transaction is the same after every call; a
\* returned request is a distinct dict that carries every field of the base
\* transaction with its value, adds 'data', and adds 'to' = address only
\* when the base has no 'to' and the address is non-empty.
C5_BaseUntouched ==
    PrepareCall =>
        /\ transaction = call.transaction
        /\ result.outcome = "return" =>
              /\ result.ref # "caller"
              /\ \A k \in DOMAIN call.transaction :
                    k \in DOMAIN result.value /\ result.value[k] = call.transaction[k]
              /\ "data" \in DOMAIN result.value
              /\ DOMAIN result.value =
                    DOMAIN call.transaction \cup {"data"}
                        \cup (IF call.address # "" THEN {"to"} ELSE {})
              /\ ("to" \notin DOMAIN call.transaction /\ call.address # "") =>
                    result.value["to"] = call.address

\* A caller-supplied 'to' kept although an address is given.
C5_Witness ==
    /\ PrepareCall
    /\ result.outcome = "return"
    /\ call.address = "0xA"
    /\ "to" \in DOMAIN call.transaction
    /\ result.value["to"] = "0xB"
    /\ "data" \notin DOMAIN transaction

\* C10: with no base transaction (None), when resolution and encoding
\* succeed, prepare_transaction returns a request holding 'data' and, for a
\* non-empty address, 'to', and nothing else.
C10_NoneTransactionAccepted ==
    (/\ PrepareCall
     /\ call.transaction = NoneVal
     /\ Resolution.outcome = "return"
     /\ encode_transaction_data(call.fn_identifier, abi, Resolution.value,
                                call.fn_args, call.fn_kwargs).outcome = "return") =>
        /\ result.outcome = "return"
        /\ DOMAIN result.value = {"data"} \cup (IF call.address # "" THEN {"to"} ELSE {})

====
